---------------------------- MODULE Spec2Model ----------------------------
(***************************************************************************)
(* Model of src/main.rs: the serde codecs of the GFF score, strand and     *)
(* frame columns (modules serde_score, serde_strand, serde_frame), the     *)
(* derived (de)serialisation of struct Record, and the reader() / writer() *)
(* drivers over the csv reader and writer.                                 *)
(*                                                                         *)
(* A text field is a sequence of one-character strings.  Option<T> is the  *)
(* record [some |-> FALSE] or [some |-> TRUE, v |-> x]; Result<T, E> is    *)
(* [ok |-> TRUE, val |-> x] or [ok |-> FALSE, err |-> e].  An error built  *)
(* by Error::custom(format!(...)) is the record of what its message says:  *)
(* the column the message names and the offending text or value.           *)
(***************************************************************************)
EXTENDS Integers, Sequences, FiniteSets, TLC

\* ------------------------------------------------------------------ bounds
\* Longest score text enumerated over ScoreAlphabet.
MaxScoreLen == 3
\* Largest frame value handed to serde_frame::serialize (u64 otherwise).
MaxFrame == 4
\* Longest chain decode, encode, decode, ... followed on one column.
MaxChain == 4
\* Largest number of lines of an input file, and of records written.
MaxLines == 2

\* ------------------------------------------------------- Option and Result
None == [some |-> FALSE]

Some(x) == [some |-> TRUE, v |-> x]

Ok(x) == [ok |-> TRUE, val |-> x]

Err(e) == [ok |-> FALSE, err |-> e]

\* Error::custom(format!("invalid character {:?} in the <column>", value)) and
\* Error::custom(format!("invalid frame {}", v)): the message names a column
\* and carries the offending text or value.
Custom(column, what) == [kind |-> "custom", names |-> column, what |-> what]

\* ------------------------------------------------------------------- text
Digits == {"0", "1", "2", "3", "4", "5", "6", "7", "8", "9"}

DigitVal(c) ==
    CASE c = "0" -> 0 [] c = "1" -> 1 [] c = "2" -> 2 [] c = "3" -> 3
      [] c = "4" -> 4 [] c = "5" -> 5 [] c = "6" -> 6 [] c = "7" -> 7
      [] c = "8" -> 8 [] c = "9" -> 9

DigitChar(n) ==
    CASE n = 0 -> "0" [] n = 1 -> "1" [] n = 2 -> "2" [] n = 3 -> "3"
      [] n = 4 -> "4" [] n = 5 -> "5" [] n = 6 -> "6" [] n = 7 -> "7"
      [] n = 8 -> "8" [] n = 9 -> "9"

\* ASCII lower case of the letters the float grammar looks at.
Lower(c) ==
    CASE c = "I" -> "i" [] c = "N" -> "n" [] c = "F" -> "f" [] c = "A" -> "a"
      [] c = "T" -> "t" [] c = "Y" -> "y" [] c = "E" -> "e" [] OTHER -> c

LowerText(t) == [i \in 1..Len(t) |-> Lower(t[i])]

AllDigits(t) == \A i \in 1..Len(t) : t[i] \in Digits

\* Index of the first character of t that is in cs, 0 when there is none.
IndexOf(t, cs) ==
    IF \E i \in 1..Len(t) : t[i] \in cs
    THEN CHOOSE i \in 1..Len(t) : t[i] \in cs /\ \A j \in 1..(i - 1) : t[j] \notin cs
    ELSE 0

RECURSIVE DigitsVal(_)
DigitsVal(t) ==
    IF t = <<>> THEN 0
    ELSE 10 * DigitsVal(SubSeq(t, 1, Len(t) - 1)) + DigitVal(t[Len(t)])

\* Number of "0" characters that end t.
RECURSIVE TrailingZeros(_)
TrailingZeros(t) ==
    IF t = <<>> \/ t[Len(t)] # "0" THEN 0
    ELSE 1 + TrailingZeros(SubSeq(t, 1, Len(t) - 1))

RECURSIVE DigitsOf(_)
DigitsOf(n) ==
    IF n < 10 THEN <<DigitChar(n)>>
    ELSE Append(DigitsOf(n \div 10), DigitChar(n % 10))

RECURSIVE Pow10(_)
Pow10(n) == IF n = 0 THEN 1 ELSE 10 * Pow10(n - 1)

Zeros(n) == [i \in 1..n |-> "0"]

\* Signed decimal integer, as itoa / Display write it.
IntText(n) == IF n < 0 THEN <<"-">> \o DigitsOf(0 - n) ELSE DigitsOf(n)

\* ---------------------------------------------------------------- f64
\* An f64 is NaN, an infinity, or neg * m * 10^e with m not divisible by 10
\* (m = 0, e = 0 for the zeros): the shortest decimal that identifies it.
\* Every decimal of at most 15 significant digits identifies one f64, so the
\* texts enumerated here parse to distinct values exactly when their
\* normalised decimals differ.
NaN == [kind |-> "nan"]

Inf(neg) == [kind |-> "inf", neg |-> neg]

RECURSIVE Normalise(_, _)
Normalise(m, e) ==
    IF m = 0 THEN <<0, 0>>
    ELSE IF m % 10 = 0 THEN Normalise(m \div 10, e + 1)
    ELSE <<m, e>>

\* Largest finite f64 is 1.7976931348623157e308; smallest positive one is
\* 4.9e-324.  A decimal beyond the first parses to an infinity, one below the
\* second to a zero.
MaxExp10 == 308

MinExp10 == -324

MaxLead9 == 179769313

Num(neg, m0, e0) ==
    LET n == Normalise(m0, e0)
        m == n[1]
        e == n[2]
        d == Len(DigitsOf(m))
        sci == e + d - 1
    IN  IF m = 0 THEN [kind |-> "num", neg |-> neg, m |-> 0, e |-> 0]
        ELSE IF sci > MaxExp10 \/ (sci = MaxExp10 /\ m * Pow10(9 - d) > MaxLead9)
             THEN Inf(neg)
        ELSE IF sci < MinExp10 THEN [kind |-> "num", neg |-> neg, m |-> 0, e |-> 0]
        ELSE [kind |-> "num", neg |-> neg, m |-> m, e |-> e]

\* str::parse::<f64>() (core::num::dec2flt):
\*   Float  ::= Sign? ( 'inf' | 'infinity' | 'nan' | Number )
\*   Number ::= ( Digit+ | Digit+ '.' Digit* | Digit* '.' Digit+ ) Exp?
\*   Exp    ::= 'e' Sign? Digit+
\* letters in either case.  The result is Ok(value) or Err("float").  The
\* digits are read without their trailing zeros, which only move the exponent.
ParseF64(t) ==
    LET signed == Len(t) > 0 /\ t[1] \in {"+", "-"}
        neg == Len(t) > 0 /\ t[1] = "-"
        body == IF signed THEN Tail(t) ELSE t
        low == LowerText(body)
        ePos == IndexOf(low, {"e"})
        mant == IF ePos = 0 THEN body ELSE SubSeq(body, 1, ePos - 1)
        expo == IF ePos = 0 THEN <<>> ELSE SubSeq(body, ePos + 1, Len(body))
        eSigned == Len(expo) > 0 /\ expo[1] \in {"+", "-"}
        eNeg == Len(expo) > 0 /\ expo[1] = "-"
        eDigits == IF eSigned THEN Tail(expo) ELSE expo
        dot == IndexOf(mant, {"."})
        int == IF dot = 0 THEN mant ELSE SubSeq(mant, 1, dot - 1)
        frac == IF dot = 0 THEN <<>> ELSE SubSeq(mant, dot + 1, Len(mant))
        expOk == ePos = 0 \/ (Len(eDigits) > 0 /\ AllDigits(eDigits))
        mantOk == AllDigits(int) /\ AllDigits(frac) /\ Len(int) + Len(frac) > 0
        ev == IF ePos = 0 THEN 0
              ELSE IF eNeg THEN 0 - DigitsVal(eDigits) ELSE DigitsVal(eDigits)
        all == int \o frac
        tz == TrailingZeros(all)
        sig == SubSeq(all, 1, Len(all) - tz)
    IN  IF low = <<"n", "a", "n">> THEN Ok(NaN)
        ELSE IF low = <<"i", "n", "f">>
                \/ low = <<"i", "n", "f", "i", "n", "i", "t", "y">> THEN Ok(Inf(neg))
        ELSE IF mantOk /\ expOk
             THEN Ok(Num(neg, DigitsVal(sig), ev - Len(frac) + tz))
        ELSE Err("float")

\* ryu::Buffer::format, which csv's Serializer::serialize_f64 writes: "NaN",
\* "inf", "-inf", and for a finite value its shortest digits, in positional
\* notation with at least one fractional digit when the decimal point falls
\* within the digits or at most 16 places right / 5 places left of them, and
\* in exponent notation otherwise.
FormatF64(x) ==
    LET sign == IF x.neg THEN <<"-">> ELSE <<>>
        ds == DigitsOf(x.m)
        k == x.e
        kk == Len(ds) + k
    IN  IF x.kind = "nan" THEN <<"N", "a", "N">>
        ELSE IF x.kind = "inf" THEN (IF x.neg THEN <<"-">> ELSE <<>>) \o <<"i", "n", "f">>
        ELSE IF x.m = 0 THEN sign \o <<"0", ".", "0">>
        ELSE IF 0 <= k /\ kk <= 16 THEN sign \o ds \o Zeros(k) \o <<".", "0">>
        ELSE IF 0 < kk /\ kk <= 16
             THEN sign \o SubSeq(ds, 1, kk) \o <<".">> \o SubSeq(ds, kk + 1, Len(ds))
        ELSE IF -5 < kk /\ kk <= 0 THEN sign \o <<"0", ".">> \o Zeros(0 - kk) \o ds
        ELSE IF Len(ds) = 1 THEN sign \o ds \o <<"e">> \o IntText(kk - 1)
        ELSE sign \o <<ds[1], ".">> \o Tail(ds) \o <<"e">> \o IntText(kk - 1)

\* ---------------------------------------------------------------- u64
\* str::parse::<u64>(): an optional '+', then one or more digits.
ParseU64(t) ==
    LET body == IF Len(t) > 0 /\ t[1] = "+" THEN Tail(t) ELSE t
    IN  IF Len(body) > 0 /\ AllDigits(body) THEN Ok(DigitsVal(body))
        ELSE Err([kind |-> "parse_int", what |-> t])

\* Serializer::serialize_u64: the decimal digits of the value.
FormatU64(n) == DigitsOf(n)

\* ------------------------------------------------------------ serde_strand
\* enum Strand
Strand == {"Forward", "Reverse", "Unknown"}

\* csv's Deserializer::deserialize_char, to which both char columns hand their
\* visitor: a field that is not exactly one character is an error, and the
\* visitor sees the single character otherwise.
CharCount(field) == [kind |-> "char_count", len |-> Len(field), what |-> field]

\* Mutant of StrandVisitChar: '?' is merged into the absent strand on decode.
StrandVisitCharMerging(value) ==
    IF value \in {"+", "f", "F"} THEN Ok(Some("Forward"))
    ELSE IF value \in {"-", "r", "R"} THEN Ok(Some("Reverse"))
    ELSE IF value \in {"?", "."} THEN Ok(None)
    ELSE Err(Custom("strand", <<value>>))

\* Mutant of StrandVisitChar: '.' is read as Strand::Unknown.
StrandVisitCharDotUnknown(value) ==
    IF value \in {"+", "f", "F"} THEN Ok(Some("Forward"))
    ELSE IF value \in {"-", "r", "R"} THEN Ok(Some("Reverse"))
    ELSE IF value \in {"?", "."} THEN Ok(Some("Unknown"))
    ELSE Err(Custom("strand", <<value>>))

StrandVisitChar(value) ==
    IF value \in {"+", "f", "F"} THEN Ok(Some("Forward"))
    ELSE IF value \in {"-", "r", "R"} THEN Ok(Some("Reverse"))
    ELSE IF value = "?" THEN Ok(Some("Unknown"))
    ELSE IF value = "." THEN Ok(None)
    ELSE Err(Custom("strand", <<value>>))

StrandDeserialize(field) ==
    IF Len(field) # 1 THEN Err(CharCount(field)) ELSE StrandVisitChar(field[1])

\* Mutant of StrandSerialize: Unknown is written as '?'.
StrandSerializeKeepingUnknown(strand) ==
    IF strand = Some("Forward") THEN Ok(<<"+">>)
    ELSE IF strand = Some("Reverse") THEN Ok(<<"-">>)
    ELSE IF strand = Some("Unknown") THEN Ok(<<"?">>)
    ELSE Ok(<<".">>)

StrandSerialize(strand) ==
    IF strand = Some("Forward") THEN Ok(<<"+">>)
    ELSE IF strand = Some("Reverse") THEN Ok(<<"-">>)
    ELSE IF strand = Some("Unknown") THEN Ok(<<".">>)
    ELSE Ok(<<".">>)

\* ------------------------------------------------------------- serde_score
\* The message of the score visitor's error says "in the strand".
ScoreVisitStr(value) ==
    IF value = <<".">> THEN Ok(None)
    ELSE LET r == ParseF64(value)
         IN  IF r.ok THEN Ok(Some(r.val)) ELSE Err(Custom("strand", value))

ScoreDeserialize(field) == ScoreVisitStr(field)

\* Mutant of ScoreSerialize: a NaN or infinite score is refused.
ScoreSerializeFiniteOnly(score) ==
    IF score.some
    THEN IF score.v.kind = "num" THEN Ok(FormatF64(score.v))
         ELSE Err(Custom("score", score.v))
    ELSE Ok(<<".">>)

ScoreSerialize(score) ==
    IF score.some THEN Ok(FormatF64(score.v)) ELSE Ok(<<".">>)

\* ------------------------------------------------------------- serde_frame
\* Mutant of FrameVisitChar: every digit up to 3 is accepted.
FrameVisitCharUpTo3(value) ==
    IF value \in {"0", "1", "2", "3"} THEN Ok(Some(DigitVal(value)))
    ELSE IF value = "." THEN Ok(None)
    ELSE Err(Custom("frame", <<value>>))

FrameVisitChar(value) ==
    IF value = "0" THEN Ok(Some(0))
    ELSE IF value = "1" THEN Ok(Some(1))
    ELSE IF value = "2" THEN Ok(Some(2))
    ELSE IF value = "." THEN Ok(None)
    ELSE Err(Custom("frame", <<value>>))

FrameDeserialize(field) ==
    IF Len(field) # 1 THEN Err(CharCount(field)) ELSE FrameVisitChar(field[1])

\* Mutant of FrameSerialize: the upper limit of the range test is missing.
FrameSerializeNoUpperLimit(frame) ==
    IF frame.some
    THEN IF 0 < frame.v
         THEN Ok(FormatU64(0))
         ELSE Err(Custom("frame", frame.v))
    ELSE Ok(<<".">>)

FrameSerialize(frame) ==
    IF frame.some
    THEN IF 0 < frame.v /\ frame.v < 3
         THEN Ok(FormatU64(0))
         ELSE Err(Custom("frame", frame.v))
    ELSE Ok(<<".">>)

\* ------------------------------------------------------- the three columns
Columns == {"score", "strand", "frame"}

Deserialize(column, field) ==
    CASE column = "score" -> ScoreDeserialize(field)
      [] column = "strand" -> StrandDeserialize(field)
      [] column = "frame" -> FrameDeserialize(field)

Serialize(column, value) ==
    CASE column = "score" -> ScoreSerialize(value)
      [] column = "strand" -> StrandSerialize(value)
      [] column = "frame" -> FrameSerialize(value)

\* ------------------------------------------------------------------ Record
\* struct Record: the fields in declaration order, which is the order the
\* derived Deserialize (visit_seq over a header-less csv record) and the
\* derived Serialize walk them in.
FieldNames ==
    <<"seqname", "source", "feature", "start", "end", "score", "strand",
      "frame", "attributes">>

NumFields == Len(FieldNames)

\* Deserialising field i of the struct from a csv field: String and u64 by
\* their own Deserialize, the three annotated fields by their `with` module.
DeField(i, field) ==
    CASE FieldNames[i] \in {"seqname", "source", "feature", "attributes"} -> Ok(field)
      [] FieldNames[i] \in {"start", "end"} -> ParseU64(field)
      [] OTHER -> Deserialize(FieldNames[i], field)

\* Serialising field i of the struct into a csv field.
SerField(i, value) ==
    CASE FieldNames[i] \in {"seqname", "source", "feature", "attributes"} -> Ok(value)
      [] FieldNames[i] \in {"start", "end"} -> Ok(FormatU64(value))
      [] OTHER -> Serialize(FieldNames[i], value)

\* A Record is the tuple of its nine field values, in declaration order.
FieldIndex(name) == CHOOSE i \in 1..NumFields : FieldNames[i] = name

Get(record, name) == record[FieldIndex(name)]

\* const GFF_FILE: two lines, here already split at the tabs.
GFF_FILE ==
    << <<
       <<"P", "0", "A", "7", "B", "8">>,
       <<"U", "n", "i", "P", "r", "o", "t", "K", "B">>,
       <<"I", "n", "i", "t", "i", "a", "t", "o", "r", " ", "m", "e", "t",
         "h", "i", "o", "n", "i", "n", "e">>,
       <<"1">>,
       <<"1">>,
       <<".">>,
       <<".">>,
       <<".">>,
       <<"N", "o", "t", "e", "=", "R", "e", "m", "o", "v", "e", "d", ",",
         "O", "b", "s", "o", "l", "e", "t", "e", ";", "I", "D", "=", "t",
         "e", "s", "t">>
    >>, <<
       <<"P", "0", "A", "7", "B", "8">>,
       <<"U", "n", "i", "P", "r", "o", "t", "K", "B">>,
       <<"C", "h", "a", "i", "n">>,
       <<"2">>,
       <<"1", "7", "6">>,
       <<"5", "0">>,
       <<"+">>,
       <<".">>,
       <<"N", "o", "t", "e", "=", "A", "T", "P", "-", "d", "e", "p", "e",
         "n", "d", "e", "n", "t", " ", "p", "r", "o", "t", "e", "a", "s",
         "e", " ", "s", "u", "b", "u", "n", "i", "t", " ", "H", "s", "l",
         "V", ";", "I", "D", "=", "P", "R", "O", "_", "0", "0", "0", "0",
         "1", "4", "8", "1", "0", "5">>
    >> >>

\* let records = vec![...] of writer().
WriterRecords ==
    << <<
       <<"P", "0", "A", "7", "B", "8">>,
       <<"U", "n", "i", "P", "r", "o", "t", "K", "B">>,
       <<"I", "n", "i", "t", "i", "a", "t", "o", "r", " ", "m", "e", "t",
         "h", "i", "o", "n", "i", "n", "e">>,
       1,
       1,
       None,
       Some("Forward"),
       None,
       <<"N", "o", "t", "e", "=", "R", "e", "m", "o", "v", "e", "d", ",",
         "O", "b", "s", "o", "l", "e", "t", "e", ";", "I", "D", "=", "t",
         "e", "s", "t">>
    >>, <<
       <<"P", "0", "A", "7", "B", "8">>,
       <<"U", "n", "i", "P", "r", "o", "t", "K", "B">>,
       <<"C", "h", "a", "i", "n">>,
       2,
       176,
       Some(Num(FALSE, 50, 0)),
       Some("Forward"),
       None,
       <<"N", "o", "t", "e", "=", "A", "T", "P", "-", "d", "e", "p", "e",
         "n", "d", "e", "n", "t", " ", "p", "r", "o", "t", "e", "a", "s",
         "e", " ", "s", "u", "b", "u", "n", "i", "t", " ", "H", "s", "l",
         "V", ";", "I", "D", "=", "P", "R", "O", "_", "0", "0", "0", "0",
         "1", "4", "8", "1", "0", "5">>
    >> >>

\* ------------------------------------------------------------------ inputs
TextsUpTo(alphabet, n) == UNION {[1..k -> alphabet] : k \in 0..n}

ScoreAlphabet == {"0", "1", "5", ".", "e", "-", "+", "x"}

ScoreTexts ==
    TextsUpTo(ScoreAlphabet, MaxScoreLen)
      \cup { <<"N", "a", "N">>, <<"i", "n", "f">>, <<"-", "i", "n", "f">>,
             <<"a", "b", "c">>, <<"1", "7", "6">>, <<"1", "e", "9", "9", "9">>,
             <<"5", "e", "-", "5">>, <<"5", "e", "-", "6">>,
             <<"1", ".", "5", "e", "2", "1">>, <<"1", "5", "e", "1", "5">> }

CharAlphabet == {"+", "-", "f", "F", "r", "R", "?", ".", "0", "1", "2", "3", "x"}

\* Longest text handed to the strand and frame decoders.
MaxCharLen == 2

CharTexts == TextsUpTo(CharAlphabet, MaxCharLen)

F64Values ==
    {NaN, Inf(FALSE), Inf(TRUE)}
      \cup {Num(neg, m, e) : neg \in BOOLEAN, m \in {0, 5, 50, 176},
                             e \in {-7, -5, -1, 0, 14, 15, 307}}

ScoreValues == {None} \cup {Some(x) : x \in F64Values}

StrandValues == {None} \cup {Some(x) : x \in Strand}

FrameValues == {None} \cup {Some(v) : v \in 0..MaxFrame}

Texts(column) == IF column = "score" THEN ScoreTexts ELSE CharTexts

Values(column) ==
    CASE column = "score" -> ScoreValues
      [] column = "strand" -> StrandValues
      [] column = "frame" -> FrameValues

\* Lines derived from a line of GFF_FILE: itself, one field short, one field
\* long, with the score, strand or frame column replaced, and one field short
\* with the score replaced.
SetCol(line, i, field) == [line EXCEPT ![i] = field]

LinesFrom(line) ==
    { line,
      SubSeq(line, 1, Len(line) - 1),
      Append(line, <<"x">>),
      SetCol(line, 6, <<"x">>),
      SubSeq(SetCol(line, 6, <<"x">>), 1, Len(line) - 1),
      SetCol(line, 7, <<"f">>),
      SetCol(line, 8, <<"3">>) }

Lines == UNION {LinesFrom(GFF_FILE[i]) : i \in 1..Len(GFF_FILE)}

Files == UNION {[1..k -> Lines] : k \in 0..MaxLines}

\* The vector of writer(), and the same with one score, strand or frame of
\* one record set to another value of its type.
WriterValues(column) ==
    CASE column = "score" -> {Some(NaN), Some(Inf(TRUE)), Some(Num(FALSE, 5, -1))}
      [] column = "strand" -> StrandValues
      [] column = "frame" -> FrameValues

WriterInputs ==
    {WriterRecords}
      \cup UNION {{[WriterRecords EXCEPT ![i][FieldIndex(c)] = v] :
                      i \in 1..Len(WriterRecords), v \in WriterValues(c)} :
                   c \in Columns}

\* ------------------------------------------------------------------- state
VARIABLES
    pc,         \* "idle", "reading" (inside reader()), "writing" (inside writer())
    hist,       \* the codec calls chained on one column: [op, col, arg, res]
    rfile,      \* reader: the lines of the input
    rpos,       \* reader: lines taken from the input so far
    rfields,    \* reader: the fields of the line being deserialised
    rvals,      \* reader: the field values deserialised from it so far
    ran,        \* reader: the fields of it whose deserialiser has been called
    first_len,  \* reader: field count of the first line (0 before it)
    records,    \* reader: the records deserialised (and printed) so far
    rres,       \* reader: Pending, Done or Failed(error)
    wsrc,       \* writer: "built" (the vector of writer()) or "decoded"
    wrecs,      \* writer: the records to write
    wpos,       \* writer: records completely written
    wline,      \* writer: the fields written of the record in progress
    out,        \* writer: the lines written
    wres        \* writer: Pending, Done or Failed(error)

vars ==
    <<pc, hist, rfile, rpos, rfields, rvals, ran, first_len, records, rres,
      wsrc, wrecs, wpos, wline, out, wres>>

rvars == <<rfile, rpos, rfields, rvals, ran, first_len, records, rres>>

wvars == <<wsrc, wrecs, wpos, wline, out, wres>>

Pending == [state |-> "pending"]

Done == [state |-> "ok"]

Failed(e) == [state |-> "err", err |-> e]

ReaderReset ==
    /\ rfile' = <<>>
    /\ rpos' = 0
    /\ rfields' = <<>>
    /\ rvals' = <<>>
    /\ ran' = <<>>
    /\ first_len' = 0
    /\ records' = <<>>
    /\ rres' = Pending

WriterReset ==
    /\ wsrc' = "built"
    /\ wrecs' = <<>>
    /\ wpos' = 0
    /\ wline' = <<>>
    /\ out' = <<>>
    /\ wres' = Pending

Init ==
    /\ pc = "idle"
    /\ hist = <<>>
    /\ rfile = <<>>
    /\ rpos = 0
    /\ rfields = <<>>
    /\ rvals = <<>>
    /\ ran = <<>>
    /\ first_len = 0
    /\ records = <<>>
    /\ rres = Pending
    /\ wsrc = "built"
    /\ wrecs = <<>>
    /\ wpos = 0
    /\ wline = <<>>
    /\ out = <<>>
    /\ wres = Pending

\* ------------------------------------------------------ one column's codec
DecodeCall(column, field) ==
    [op |-> "decode", col |-> column, arg |-> field, res |-> Deserialize(column, field)]

EncodeCall(column, value) ==
    [op |-> "encode", col |-> column, arg |-> value, res |-> Serialize(column, value)]

Last == hist[Len(hist)]

\* No call is in progress and none has been made since the last Return.
Fresh ==
    /\ pc = "idle"
    /\ hist = <<>>
    /\ rres = Pending
    /\ wres = Pending

\* A field of a line is handed to its column's deserialize.
Decode ==
    /\ Fresh
    /\ \E column \in Columns : \E field \in Texts(column) :
          hist' = <<DecodeCall(column, field)>>
    /\ ReaderReset
    /\ WriterReset
    /\ pc' = pc

\* A field value of a Record is handed to its column's serialize.
Encode ==
    /\ Fresh
    /\ \E column \in Columns : \E value \in Values(column) :
          hist' = <<EncodeCall(column, value)>>
    /\ ReaderReset
    /\ WriterReset
    /\ pc' = pc

\* What a successful call returned is handed to the opposite function: the
\* decoded value is written, the written field is read again.
Chain ==
    /\ pc = "idle"
    /\ hist # <<>>
    /\ Len(hist) < MaxChain
    /\ Last.res.ok
    /\ hist' = Append(hist,
                  IF Last.op = "decode" THEN EncodeCall(Last.col, Last.res.val)
                  ELSE DecodeCall(Last.col, Last.res.val))
    /\ UNCHANGED <<pc, rvars, wvars>>

\* ----------------------------------------------------------------- reader
\* csv's error for a record whose field count differs from the first
\* record's (ReaderBuilder leaves `flexible` off).
UnequalLengths(expected, len) ==
    [kind |-> "unequal_lengths", expected |-> expected, len |-> len]

\* serde's de::Error::invalid_length(len, &"struct Record with 9 elements"),
\* which the derived visit_seq returns when the record runs out of fields.
InvalidLength(len) == [kind |-> "invalid_length", len |-> len, expected |-> NumFields]

\* ReaderBuilder::new() leaves `flexible` off: a record is refused when its
\* field count is not that of the first record read (0: none read yet).
\* Mutant of LengthRefused: every record is held to the nine fields of Record.
LengthRefusedUnlessNine(first, line) == Len(line) # NumFields

LengthRefused(first, line) == first # 0 /\ Len(line) # first

\* reader() is entered on an input.
ReaderStart ==
    /\ Fresh
    /\ \E file \in Files : rfile' = file
    /\ pc' = "reading"
    /\ rpos' = 0
    /\ rfields' = <<>>
    /\ rvals' = <<>>
    /\ ran' = <<>>
    /\ first_len' = 0
    /\ records' = <<>>
    /\ rres' = Pending
    /\ hist' = <<>>
    /\ WriterReset

\* The iterator of rdr.deserialize() is advanced: the input is exhausted and
\* reader() returns Ok(()), or the next line is read, and refused if its
\* field count is not the first line's.
ReaderNext ==
    /\ pc = "reading"
    /\ rfields = <<>>
    /\ IF rpos = Len(rfile)
       THEN /\ pc' = "idle"
            /\ rres' = Done
            /\ UNCHANGED <<rpos, rfields, first_len>>
       ELSE LET line == rfile[rpos + 1]
            IN  /\ rpos' = rpos + 1
                /\ IF LengthRefused(first_len, line)
                   THEN /\ pc' = "idle"
                        /\ rres' = Failed(UnequalLengths(first_len, Len(line)))
                        /\ UNCHANGED <<rfields, first_len>>
                   ELSE /\ rfields' = line
                        /\ first_len' = IF first_len = 0 THEN Len(line) ELSE first_len
                        /\ UNCHANGED <<pc, rres>>
    /\ rvals' = <<>>
    /\ ran' = <<>>
    /\ UNCHANGED <<hist, rfile, records, wvars>>

\* The derived visit_seq takes the next field of the struct: the record has
\* no field left (invalid_length), or the field's deserialiser runs; its
\* error ends reader() through `?`, and the ninth value completes the Record,
\* which is printed.
ReaderField ==
    /\ pc = "reading"
    /\ rfields # <<>>
    /\ LET i == Len(rvals) + 1
       IN  IF i > Len(rfields)
           THEN /\ pc' = "idle"
                /\ rres' = Failed(InvalidLength(Len(rfields)))
                /\ rfields' = <<>>
                /\ UNCHANGED <<rvals, ran, records>>
           ELSE LET r == DeField(i, rfields[i])
                IN  /\ ran' = Append(ran, FieldNames[i])
                    /\ IF ~r.ok
                       THEN /\ pc' = "idle"
                            /\ rres' = Failed(r.err)
                            /\ rfields' = <<>>
                            /\ UNCHANGED <<rvals, records>>
                       ELSE IF i = NumFields
                       THEN /\ records' = Append(records, Append(rvals, r.val))
                            /\ rvals' = Append(rvals, r.val)
                            /\ rfields' = <<>>
                            /\ UNCHANGED <<pc, rres>>
                       ELSE /\ rvals' = Append(rvals, r.val)
                            /\ UNCHANGED <<pc, rres, rfields, records>>
    /\ UNCHANGED <<hist, rfile, rpos, first_len, wvars>>

\* ----------------------------------------------------------------- writer
\* writer() is entered on its vector of records.
WriterStart ==
    /\ Fresh
    /\ \E recs \in WriterInputs : wrecs' = recs
    /\ wsrc' = "built"
    /\ pc' = "writing"
    /\ wpos' = 0
    /\ wline' = <<>>
    /\ out' = <<>>
    /\ wres' = Pending
    /\ hist' = <<>>
    /\ ReaderReset

\* The records reader() deserialised are handed to the writer.
WriterStartDecoded ==
    /\ pc = "idle"
    /\ rres = Done
    /\ records # <<>>
    /\ wres = Pending
    /\ wrecs' = records
    /\ wsrc' = "decoded"
    /\ pc' = "writing"
    /\ wpos' = 0
    /\ wline' = <<>>
    /\ out' = <<>>
    /\ wres' = Pending
    /\ UNCHANGED <<hist, rvars>>

\* wtr.serialize(&record) writes the next field of the record in progress:
\* the field's serialiser runs, its error ends writer() through `?`, and the
\* ninth field ends the line.  After the last record wtr.flush() and Ok(()).
WriterField ==
    /\ pc = "writing"
    /\ IF wpos = Len(wrecs)
       THEN /\ pc' = "idle"
            /\ wres' = Done
            /\ UNCHANGED <<wpos, wline, out>>
       ELSE LET i == Len(wline) + 1
                r == SerField(i, wrecs[wpos + 1][i])
            IN  IF ~r.ok
                THEN /\ pc' = "idle"
                     /\ wres' = Failed(r.err)
                     /\ UNCHANGED <<wpos, wline, out>>
                ELSE IF i = NumFields
                THEN /\ out' = Append(out, Append(wline, r.val))
                     /\ wline' = <<>>
                     /\ wpos' = wpos + 1
                     /\ UNCHANGED <<pc, wres>>
                ELSE /\ wline' = Append(wline, r.val)
                     /\ UNCHANGED <<pc, wres, wpos, out>>
    /\ UNCHANGED <<hist, rvars, wsrc, wrecs>>

\* The caller takes the result, an error included, and is free to make the
\* next call: nothing of a finished call is kept.
Return ==
    /\ pc = "idle"
    /\ ~Fresh
    /\ pc' = pc
    /\ hist' = <<>>
    /\ ReaderReset
    /\ WriterReset

\* ------------------------------------------------------------ specification
Next ==
    \/ Decode
    \/ Encode
    \/ Chain
    \/ ReaderStart
    \/ ReaderNext
    \/ ReaderField
    \/ WriterStart
    \/ WriterStartDecoded
    \/ WriterField
    \/ Return

Spec == Init /\ [][Next]_vars

\* ------------------------------------------------------------------ claims
\* The calls of hist that are `op` on `column`.
Calls(op, column) ==
    {i \in 1..Len(hist) : hist[i].op = op /\ hist[i].col = column}

InFrameRange(frame) == frame.some /\ frame.v \in {0, 1, 2}

\* C1: serde_frame::serialize maps None to "." and every present value v with
\* 0 <= v <= 2 to the digit of v.
C1_FrameEncodeEmitsDigit ==
    \A i \in Calls("encode", "frame") :
        /\ hist[i].arg = None => hist[i].res = Ok(<<".">>)
        /\ InFrameRange(hist[i].arg) => hist[i].res = Ok(<<DigitChar(hist[i].arg.v)>>)

\* C3: serde_frame::serialize of a present value outside {0, 1, 2} returns the
\* error naming the frame and the value and writes no field: the writer ends
\* with that error and the seven fields written before it, no line it wrote
\* holds a frame field for an out-of-range value, and the caller goes on.
C3_FrameEncodeRejectsOutOfRange ==
    /\ \A i \in Calls("encode", "frame") :
          hist[i].arg.some /\ ~InFrameRange(hist[i].arg)
             => hist[i].res = Err(Custom("frame", hist[i].arg.v))
    /\ \A k \in 1..Len(out) :
          LET frame == Get(wrecs[k], "frame")
          IN  frame.some => InFrameRange(frame)
    /\ \A k \in 1..Len(wrecs) :
          LET frame == Get(wrecs[k], "frame")
          IN  (frame.some /\ ~InFrameRange(frame) /\ wpos = k - 1
                 /\ Len(wline) = FieldIndex("frame") - 1 /\ wres # Pending)
                 => /\ wres = Failed(Custom("frame", frame.v))
                    /\ pc = "idle"
                    /\ ENABLED Return

\* C3 witness: serialize has refused the frame Some(3).
C3_Witness ==
    /\ Len(hist) = 1
    /\ hist[1].op = "encode"
    /\ hist[1].col = "frame"
    /\ hist[1].arg = Some(3)
    /\ ~hist[1].res.ok

ForwardChars == {"+", "f", "F"}

ReverseChars == {"-", "r", "R"}

\* C5: the strand decoder is exactly the table: + f F are Forward, - r R are
\* Reverse, ? is Unknown, . is absent (None, not Unknown), and every other
\* character and every text that is not one character long is an error.
C5_StrandDecodeTable ==
    \A i \in Calls("decode", "strand") :
        LET t == hist[i].arg
            r == hist[i].res
        IN  IF Len(t) # 1 THEN ~r.ok
            ELSE IF t[1] \in ForwardChars THEN r = Ok(Some("Forward"))
            ELSE IF t[1] \in ReverseChars THEN r = Ok(Some("Reverse"))
            ELSE IF t[1] = "?" THEN r = Ok(Some("Unknown"))
            ELSE IF t[1] = "." THEN r = Ok(None) /\ r # Ok(Some("Unknown"))
            ELSE ~r.ok

\* C5 witness: the synonym "f" has been decoded, to Forward.
C5_Witness ==
    /\ Len(hist) = 1
    /\ hist[1].op = "decode"
    /\ hist[1].col = "strand"
    /\ hist[1].arg = <<"f">>
    /\ hist[1].res = Ok(Some("Forward"))

\* C6: the strand encoder never fails and writes + for Forward, - for Reverse
\* and . for both Unknown and absent, so no synonym is ever written; decoding
\* what it wrote gives the value back, except that Unknown comes back absent.
C6_StrandEncodeCanonical ==
    \A i \in Calls("encode", "strand") :
        LET v == hist[i].arg
            r == hist[i].res
        IN  /\ r.ok
            /\ v = Some("Forward") => r.val = <<"+">>
            /\ v = Some("Reverse") => r.val = <<"-">>
            /\ v \in {Some("Unknown"), None} => r.val = <<".">>
            /\ r.val \in {<<"+">>, <<"-">>, <<".">>}
            /\ i < Len(hist) =>
                  hist[i + 1].res = Ok(IF v = Some("Unknown") THEN None ELSE v)

\* C6 witness: "?" was decoded to Unknown, written as ".", and read back absent.
C6_Witness ==
    /\ Len(hist) >= 3
    /\ hist[1].op = "decode"
    /\ hist[1].col = "strand"
    /\ hist[1].res = Ok(Some("Unknown"))
    /\ hist[2].res = Ok(<<".">>)
    /\ hist[3].res = Ok(None)

\* C7: the frame decoder maps "0", "1", "2" to Some(0), Some(1), Some(2) and
\* "." to None; every other character and every text that is not one
\* character long is an error.
C7_FrameDecodeTable ==
    \A i \in Calls("decode", "frame") :
        LET t == hist[i].arg
            r == hist[i].res
        IN  IF Len(t) # 1 THEN ~r.ok
            ELSE IF t[1] \in {"0", "1", "2"} THEN r = Ok(Some(DigitVal(t[1])))
            ELSE IF t[1] = "." THEN r = Ok(None)
            ELSE ~r.ok

\* C7 witness: the character "3" has been refused.
C7_Witness ==
    /\ Len(hist) = 1
    /\ hist[1].op = "decode"
    /\ hist[1].col = "frame"
    /\ hist[1].arg = <<"3">>
    /\ ~hist[1].res.ok

\* C2: weak round trip.  Whatever text a column's decoder accepts, encoding
\* the decoded value succeeds, the decoder accepts the text written, and
\* decoding and encoding that text again writes the same text.
C2_WeakRoundTrip ==
    (hist # <<>> /\ hist[1].op = "decode" /\ hist[1].res.ok) =>
        /\ \A i \in 2..Len(hist) : hist[i].res.ok
        /\ Len(hist) >= 4 => hist[4].res.val = hist[2].res.val

\* C8: the score decoder returns None for ".", Some(value) for every other
\* text that is a float literal, and for every other text an error that names
\* the score and carries the text.
C8_ScoreDecode ==
    \A i \in Calls("decode", "score") :
        LET t == hist[i].arg
            r == hist[i].res
        IN  IF t = <<".">> THEN r = Ok(None)
            ELSE IF ParseF64(t).ok THEN r = Ok(Some(ParseF64(t).val))
            ELSE ~r.ok /\ r.err.names = "score" /\ r.err.what = t

IsNanOrInfinite(score) == score.some /\ score.v.kind \in {"nan", "inf"}

\* C9 as stated: the score encoder writes "." for None, refuses a NaN or
\* infinite score with an error, and writes a text other than "." for every
\* other present score.
C9_ScoreEncodeRejectsNonFinite ==
    \A i \in Calls("encode", "score") :
        LET v == hist[i].arg
            r == hist[i].res
        IN  IF v = None THEN r = Ok(<<".">>)
            ELSE IF IsNanOrInfinite(v) THEN ~r.ok
            ELSE r.ok /\ r.val # <<".">>

\* C9 as amended: the score encoder writes "." for None and never fails: for
\* every present score, NaN and the infinities included (written NaN, inf and
\* -inf), it writes a text other than ".", and the writer puts that text in
\* the line.
C9_ScoreEncodeTotal ==
    /\ \A i \in Calls("encode", "score") :
          LET v == hist[i].arg
              r == hist[i].res
          IN  /\ r.ok
              /\ v = None <=> r.val = <<".">>
              /\ v = Some(NaN) => r.val = <<"N", "a", "N">>
              /\ v = Some(Inf(FALSE)) => r.val = <<"i", "n", "f">>
              /\ v = Some(Inf(TRUE)) => r.val = <<"-", "i", "n", "f">>
    /\ \A k \in 1..Len(out) :
          LET score == Get(wrecs[k], "score")
          IN  score = None <=> Get(out[k], "score") = <<".">>

\* C9 witness: serialize has written the score NaN.
C9_Witness ==
    /\ Len(hist) = 1
    /\ hist[1].op = "encode"
    /\ hist[1].col = "score"
    /\ hist[1].arg = Some(NaN)
    /\ hist[1].res = Ok(<<"N", "a", "N">>)

\* reader() has deserialised GFF_FILE and the writer has written the records
\* it produced.
FixtureReencoded == wsrc = "decoded" /\ rfile = GFF_FILE /\ wres = Done

P0A7B8 == <<"P", "0", "A", "7", "B", "8">>

Fifty == Num(FALSE, 50, 0)

\* C4 as stated: GFF_FILE decodes to two records of seqname P0A7B8, the first
\* with score None, strand Forward, frame None, the second with score
\* Some(50.0), strand Forward, frame None, and writing both gives the two
\* lines of GFF_FILE back exactly.
C4_FixtureRoundTripExact ==
    FixtureReencoded =>
        /\ Len(records) = 2
        /\ \A k \in 1..2 : Get(records[k], "seqname") = P0A7B8
        /\ Get(records[1], "score") = None
        /\ Get(records[1], "strand") = Some("Forward")
        /\ Get(records[1], "frame") = None
        /\ Get(records[2], "score") = Some(Fifty)
        /\ Get(records[2], "strand") = Some("Forward")
        /\ Get(records[2], "frame") = None
        /\ out = GFF_FILE

\* C4 as amended: GFF_FILE decodes to two records of seqname P0A7B8, the first
\* with score None, strand absent (None), frame None, the second with score
\* Some(50.0), strand Forward, frame None; writing both gives the first line
\* back exactly and the second with its score written 50.0 instead of 50,
\* which decodes to the same score.
C4_FixtureRoundTrip ==
    FixtureReencoded =>
        /\ Len(records) = 2
        /\ \A k \in 1..2 : Get(records[k], "seqname") = P0A7B8
        /\ Get(records[1], "score") = None
        /\ Get(records[1], "strand") = None
        /\ Get(records[1], "frame") = None
        /\ Get(records[2], "score") = Some(Fifty)
        /\ Get(records[2], "strand") = Some("Forward")
        /\ Get(records[2], "frame") = None
        /\ Len(out) = 2
        /\ out[1] = GFF_FILE[1]
        /\ out[2] = SetCol(GFF_FILE[2], FieldIndex("score"), <<"5", "0", ".", "0">>)
        /\ ScoreDeserialize(Get(out[2], "score")) = Ok(Get(records[2], "score"))

\* C4 witness: the two lines of GFF_FILE have been read and written again.
C4_Witness == FixtureReencoded /\ Len(out) = 2

\* The line reader() took last is finished: its Record is complete or an
\* error has ended reader().
LineFinished == rpos > 0 /\ rfields = <<>>

RanColumn == \E j \in 1..Len(ran) : ran[j] \in Columns

\* C10 as stated: a line that has not exactly nine fields fails with a
\* column-count error carrying the expected count 9 and the actual one, and
\* none of the score, strand and frame decoders has run on it.
C10_ColumnCountBeforeCodecs ==
    (LineFinished /\ Len(rfile[rpos]) # NumFields) =>
        /\ rres.state = "err"
        /\ rres.err.kind \in {"invalid_length", "unequal_lengths"}
        /\ rres.err.expected = NumFields
        /\ rres.err.len = Len(rfile[rpos])
        /\ ~RanColumn

\* C10 as amended: a line of fewer than nine fields fails.  As the first line
\* of the input it fails only after the decoders of the fields it has, those
\* of score, strand and frame among them, have run in order: with the error
\* of the first of them that fails, and otherwise with the invalid-length
\* error carrying the actual count and the expected 9.  As a later line it
\* fails before any decoder runs, with the reader's unequal-lengths error
\* carrying the first line's count and the actual one.
C10_ShortLineFails ==
    (LineFinished /\ Len(rfile[rpos]) < NumFields) =>
        LET line == rfile[rpos]
            n == Len(ran)
        IN  /\ rres.state = "err"
            /\ pc = "idle"
            /\ IF rpos = 1
               THEN /\ ran = SubSeq(FieldNames, 1, n)
                    /\ \A j \in 1..(n - 1) : DeField(j, line[j]).ok
                    /\ \/ /\ n = Len(line)
                          /\ DeField(n, line[n]).ok
                          /\ rres.err = InvalidLength(Len(line))
                       \/ /\ n >= 1
                          /\ DeField(n, line[n]) = Err(rres.err)
               ELSE /\ ran = <<>>
                    /\ rres.err = UnequalLengths(Len(rfile[1]), Len(line))

\* C10 witness: a first line of eight fields has failed with invalid length
\* 8 after its score, strand and frame were decoded.
C10_Witness ==
    /\ LineFinished
    /\ rpos = 1
    /\ Len(rfile[1]) = NumFields - 1
    /\ rres = Failed(InvalidLength(NumFields - 1))
    /\ \A c \in Columns : \E j \in 1..Len(ran) : ran[j] = c

=============================================================================
